---- MODULE Spec2Model ----
(***************************************************************************)
(* Cache simulator of riscv/cachesim.{h,cc}: lfsr_t, cache_sim_t,          *)
(* fa_cache_sim_t, the miss-handler chain and the configuration factory.   *)
(*                                                                         *)
(* A uint64_t (address, tag entry) is the set of its one-bits, a subset of *)
(* 0..63, so that &, |, ~, >> and << are exact at the full width; a        *)
(* uint32_t (the LFSR register) is a subset of 0..31.  size_t values that  *)
(* stay small (sets, ways, linesz, idx_shift, the access's bytes) and the  *)
(* statistics counters are naturals.                                       *)
(***************************************************************************)
EXTENDS Integers, Sequences, FiniteSets, TLC

VARIABLES
  engs,    \* engine id -> cache_sim_t / fa_cache_sim_t object, or NoEngine
  calls,   \* calls made through miss_handler during the last top-level call
  last,    \* the last top-level call: its arguments and the locals it saw
  proc,    \* the process: "running", "exited" (help()), or an outcome of UB
  steps    \* number of top-level calls made so far

vars == <<engs, calls, last, proc, steps>>

----------------------------------------------------------------------------
(* Bounds of the model *)

\* top-level calls per run
MaxOps == 4

----------------------------------------------------------------------------
(* Machine words *)

WordBits == 64
RegBits == 32

Bit(w, i) == IF i \in w THEN 1 ELSE 0

\* w >> n on a word of any width
ShiftR(w, n) == {b - n : b \in {x \in w : x >= n}}

\* w << n on a 64-bit word: bits shifted past bit 63 are lost
ShiftL(w, n) == {b + n : b \in {x \in w : x + n < WordBits}}

BitXor(a, b) == (a \ b) \cup (b \ a)

RECURSIVE NatBits(_, _)
NatBits(n, i) ==
  IF n = 0 THEN {}
  ELSE (IF n % 2 = 1 THEN {i} ELSE {}) \cup NatBits(n \div 2, i + 1)

\* a small natural as a word
ToWord(n) == NatBits(n, 0)

\* the width of the low piece on which additions are carried out
ChunkBits == 8

ChunkMask == 0 .. (ChunkBits - 1)

\* the natural made of the bits of w from bit i up, bit i counting 1
RECURSIVE BitsToNat(_, _)
BitsToNat(w, i) ==
  IF \A b \in w : b < i THEN 0 ELSE Bit(w, i) + 2 * BitsToNat(w, i + 1)

\* a small word as a natural
ToNat(w) == BitsToNat(w, 0)

\* 2^b % m for b < 32, without leaving the 32-bit integers
TwoPowMod(b, m) == IF b = 0 THEN 1 % m ELSE (2 * ((2 ^ (b - 1)) % m)) % m

\* w % m for a 32-bit word and a small m >= 1: the sum of the residues of
\* its bits, counted as the size of a set that holds 2^b % m elements for
\* each bit b of w
WordMod(w, m) ==
  Cardinality(UNION {{<<b, k>> : k \in 1 .. TwoPowMod(b, m)} : b \in w}) % m

\* w + 1 on the bits from ChunkBits up: the lowest clear bit is set and the
\* bits below it are cleared; all ones wrap to zero
IncHigh(w) ==
  LET high == w \ ChunkMask
      clear == (ChunkBits .. (WordBits - 1)) \ w
  IN IF clear = {} THEN {}
     ELSE LET z == CHOOSE b \in clear : \A c \in clear : b <= c
          IN {b \in high : b > z} \cup {z}

\* a + n modulo 2^64 for a word a and a natural n < 2^ChunkBits
AddNat(a, n) ==
  LET sum == ToNat(a \cap ChunkMask) + n
      carry == sum >= 2 ^ ChunkBits
  IN ToWord(sum % (2 ^ ChunkBits))
       \cup (IF carry THEN IncHigh(a) ELSE a \ ChunkMask)

\* a < b, unsigned
Less(a, b) == \E i \in b \ a : \A j \in a \ b : j < i

\* a & ~(n-1) and a & (n-1) for a small natural n >= 1
AlignDown(a, n) == a \ ToWord(n - 1)
LowBits(a, n) == a \cap ToWord(n - 1)

----------------------------------------------------------------------------
(* lfsr_t *)

\* faulty variant of LfsrPoly: no feedback taps
LfsrPolyNone == {}

\* 0xd0000001
LfsrPoly == {0, 28, 30, 31}

LfsrSeed == {0}

\* -(reg & 1) as a uint32_t: all ones when the low bit is set, else zero
LfsrNegLow(reg) == IF 0 \in reg THEN 0 .. (RegBits - 1) ELSE {}

\* faulty variant of LfsrNext: the feedback is not masked by the polynomial
LfsrNextUnmasked(reg) == BitXor(ShiftR(reg, 1), LfsrNegLow(reg))

\* reg = (reg >> 1) ^ (-(reg & 1) & 0xd0000001)
LfsrNext(reg) == BitXor(ShiftR(reg, 1), LfsrNegLow(reg) \cap LfsrPoly)

----------------------------------------------------------------------------
(* cache_sim_t / fa_cache_sim_t *)

VALID == {63}
DIRTY == {62}

NULL == <<>>
NoHandler == 0
NoEngine == [exists |-> FALSE]

Counters ==
  {"read_accesses", "read_misses", "bytes_read", "write_accesses",
   "write_misses", "bytes_written", "writebacks"}

\* for (x = linesz; x > 1; x >>= 1) idx_shift++
RECURSIVE IdxShiftLoop(_)
IdxShiftLoop(x) == IF x > 1 THEN 1 + IdxShiftLoop(x \div 2) ELSE 0

\* the two checks of init() that call help()
InitRejects(sets, linesz) ==
  \/ sets = 0
  \/ ToWord(sets) \cap ToWord(sets - 1) # {}
  \/ linesz < 8
  \/ ToWord(linesz) \cap ToWord(linesz - 1) # {}

\* the object a constructor leaves when init() returns; fa is the dynamic
\* type (fa_cache_sim_t has sets = 1 and its own, initially empty, map)
NewEngine(fa, sets, ways, linesz) ==
  [exists |-> TRUE, fa |-> fa,
   sets |-> sets, ways |-> ways, linesz |-> linesz,
   idx_shift |-> IdxShiftLoop(linesz),
   tags |-> [i \in 0 .. (sets * ways - 1) |-> {}],
   fatags |-> [k \in {} |-> {}],
   read_accesses |-> 0, read_misses |-> 0, bytes_read |-> 0,
   write_accesses |-> 0, write_misses |-> 0, bytes_written |-> 0,
   writebacks |-> 0,
   lfsr |-> LfsrSeed,
   miss_handler |-> NoHandler,
   log |-> FALSE]

\* size_t idx = (addr >> idx_shift) & (sets-1)
SetIndex(eng, addr) ==
  ToNat(ShiftR(addr, eng.idx_shift) \cap ToWord(eng.sets - 1))

\* faulty variant of InstallTag: the set-index bits are left out of the tag
InstallTagWithoutIndex(eng, addr) ==
  (ShiftR(addr, eng.idx_shift) \ ToWord(eng.sets - 1)) \cup VALID

\* (addr >> idx_shift) | VALID
InstallTag(eng, addr) == ShiftR(addr, eng.idx_shift) \cup VALID

\* cache_sim_t::check_tag: the first way of the set whose entry, DIRTY
\* masked out, equals the tag
SaCheckTag(eng, addr) ==
  LET idx == SetIndex(eng, addr)
      tag == InstallTag(eng, addr)
      hits == {i \in 0 .. (eng.ways - 1) :
                 tag = eng.tags[idx * eng.ways + i] \ DIRTY}
  IN IF hits = {} THEN NULL
     ELSE <<idx * eng.ways + (CHOOSE i \in hits : \A j \in hits : i <= j)>>

\* fa_cache_sim_t::check_tag: tags.find(addr >> idx_shift)
FaCheckTag(eng, addr) ==
  LET key == ShiftR(addr, eng.idx_shift)
  IN IF key \in DOMAIN eng.fatags THEN <<key>> ELSE NULL

\* the virtual call
CheckTag(eng, addr) ==
  IF eng.fa THEN FaCheckTag(eng, addr) ELSE SaCheckTag(eng, addr)

\* *p and *p = v for a pointer check_tag returned
Deref(eng, p) == IF eng.fa THEN eng.fatags[p[1]] ELSE eng.tags[p[1]]

Assign(eng, p, v) ==
  IF eng.fa THEN [eng EXCEPT !.fatags[p[1]] = v]
  ELSE [eng EXCEPT !.tags[p[1]] = v]

\* cache_sim_t::victimize
SaVictimize(eng, addr) ==
  LET idx == SetIndex(eng, addr)
      reg == LfsrNext(eng.lfsr)
      way == WordMod(reg, eng.ways)
  IN [victim |-> eng.tags[idx * eng.ways + way],
      eng |-> [eng EXCEPT !.lfsr = reg,
                          !.tags[idx * eng.ways + way] = InstallTag(eng, addr)]]

\* std::advance(tags.begin(), pos): the key with pos keys below it
KeyAt(m, pos) ==
  CHOOSE k \in DOMAIN m : Cardinality({o \in DOMAIN m : Less(o, k)}) = pos

\* tags[key] = v on the std::map: insert or overwrite
MapPut(m, key, v) ==
  [k \in DOMAIN m \cup {key} |-> IF k = key THEN v ELSE m[k]]

MapErase(m, key) == [k \in DOMAIN m \ {key} |-> m[k]]

\* fa_cache_sim_t::victimize
FaVictimize(eng, addr) ==
  LET key == ShiftR(addr, eng.idx_shift)
      full == Cardinality(DOMAIN eng.fatags) = eng.ways
      reg == IF full THEN LfsrNext(eng.lfsr) ELSE eng.lfsr
      pos == WordMod(reg, eng.ways)
      it == KeyAt(eng.fatags, pos)
      old_tag == IF full THEN eng.fatags[it] ELSE {}
      kept == IF full THEN MapErase(eng.fatags, it) ELSE eng.fatags
  IN [victim |-> old_tag,
      eng |-> [eng EXCEPT !.lfsr = reg,
                          !.fatags = MapPut(kept, key, InstallTag(eng, addr))]]

Victimize(eng, addr) ==
  IF eng.fa THEN FaVictimize(eng, addr) ELSE SaVictimize(eng, addr)

----------------------------------------------------------------------------
(* access and clean_invalidate, with the calls they make on miss_handler *)

Call(from, to, op, addr, bytes, store, clean, inval) ==
  [from |-> from, to |-> to, op |-> op, addr |-> addr, bytes |-> bytes,
   store |-> store, clean |-> clean, inval |-> inval]

\* store ? write_accesses++ : read_accesses++;
\* (store ? bytes_written : bytes_read) += bytes
CountAccess(eng, bytes, store) ==
  IF store
  THEN [eng EXCEPT !.write_accesses = @ + 1, !.bytes_written = @ + bytes]
  ELSE [eng EXCEPT !.read_accesses = @ + 1, !.bytes_read = @ + bytes]

\* faulty variant of CountMiss: a store miss is not counted
CountMissReadsOnly(eng, store) ==
  IF store THEN eng ELSE [eng EXCEPT !.read_misses = @ + 1]

\* store ? write_misses++ : read_misses++
CountMiss(eng, store) ==
  IF store THEN [eng EXCEPT !.write_misses = @ + 1]
  ELSE [eng EXCEPT !.read_misses = @ + 1]

\* faulty variant of MarkDirty: the entry is marked whatever the direction
MarkDirtyOnRead(eng, hit_way, store) ==
  Assign(eng, hit_way, Deref(eng, hit_way) \cup DIRTY)

\* if (store) *hit_way |= DIRTY
MarkDirty(eng, hit_way, store) ==
  IF store THEN Assign(eng, hit_way, Deref(eng, hit_way) \cup DIRTY) ELSE eng

\* faulty variant of IsValidDirty: DIRTY alone decides the writeback
IsDirtyOnly(victim) == victim \cap DIRTY # {}

\* (victim & (VALID | DIRTY)) == (VALID | DIRTY)
IsValidDirty(victim) == victim \cap (VALID \cup DIRTY) = VALID \cup DIRTY

\* faulty variant of DirtyAddr: the tag bits forwarded without the shift back
DirtyAddrNoShift(eng, victim) == victim \ (VALID \cup DIRTY)

\* (victim & ~(VALID | DIRTY)) << idx_shift
DirtyAddr(eng, victim) == ShiftL(victim \ (VALID \cup DIRTY), eng.idx_shift)

\* faulty variant of FetchAddr: the fetch carries the unaligned address
FetchAddrUnaligned(eng, addr) == addr

\* addr & ~(linesz-1)
FetchAddr(eng, addr) == AlignDown(addr, eng.linesz)

\* writebacks++
CountWriteback(eng) == [eng EXCEPT !.writebacks = @ + 1]

RECURSIVE access(_, _, _, _, _)
RECURSIVE clean_invalidate(_, _, _, _, _, _)

\* miss_handler->access(addr, bytes, store), called by engine from
ForwardAccess(S, from, addr, bytes, store) ==
  LET to == S.engs[from].miss_handler
  IN access([S EXCEPT !.calls =
               Append(@, Call(from, to, "access", addr, bytes, store,
                              FALSE, FALSE))],
            to, addr, bytes, store)

\* the miss path of cache_sim_t::access, from the miss counter on
MissPath(S, e, addr, store) ==
  LET v == Victimize(CountMiss(S.engs[e], store), addr)
      mh == v.eng.miss_handler
      S1 == [S EXCEPT !.engs[e] = v.eng]
      S2 == IF IsValidDirty(v.victim)
            THEN LET Sw == IF mh # NoHandler
                           THEN ForwardAccess(S1, e, DirtyAddr(v.eng, v.victim),
                                              v.eng.linesz, TRUE)
                           ELSE S1
                 IN [Sw EXCEPT !.engs[e] = CountWriteback(@)]
            ELSE S1
      S3 == IF mh # NoHandler
            THEN ForwardAccess(S2, e, FetchAddr(v.eng, addr), v.eng.linesz, FALSE)
            ELSE S2
  IN [S3 EXCEPT !.engs[e] = MarkDirty(@, CheckTag(@, addr), store)]

\* faulty variant of access: the miss counter is bumped before the hit check
accessCountsMissOnHit(S, e, addr, bytes, store) ==
  LET eng == CountMiss(CountAccess(S.engs[e], bytes, store), store)
      hit_way == CheckTag(eng, addr)
  IN IF hit_way # NULL
     THEN [S EXCEPT !.engs[e] = MarkDirty(eng, hit_way, store)]
     ELSE MissPath([S EXCEPT !.engs[e] =
                      CountAccess(S.engs[e], bytes, store)], e, addr, store)

\* cache_sim_t::access on engine e
access(S, e, addr, bytes, store) ==
  LET eng == CountAccess(S.engs[e], bytes, store)
      hit_way == CheckTag(eng, addr)
  IN IF hit_way # NULL
     THEN [S EXCEPT !.engs[e] = MarkDirty(eng, hit_way, store)]
     ELSE MissPath([S EXCEPT !.engs[e] = eng], e, addr, store)

\* faulty variant of CleanEntry: a clean line is written back as well
CleanEntryCountsClean(eng, hit_way, clean) ==
  IF clean
  THEN Assign(CountWriteback(eng), hit_way, Deref(eng, hit_way) \ DIRTY)
  ELSE eng

\* if (clean) { if (*hit_way & DIRTY) { writebacks++; *hit_way &= ~DIRTY; } }
CleanEntry(eng, hit_way, clean) ==
  IF clean /\ Deref(eng, hit_way) \cap DIRTY # {}
  THEN Assign(CountWriteback(eng), hit_way, Deref(eng, hit_way) \ DIRTY)
  ELSE eng

\* if (inval) *hit_way &= ~VALID
InvalEntry(eng, hit_way, inval) ==
  IF inval THEN Assign(eng, hit_way, Deref(eng, hit_way) \ VALID) ELSE eng

\* the body of the while loop for one cur_addr
CleanInvalLine(eng, cur_addr, clean, inval) ==
  LET hit_way == CheckTag(eng, cur_addr)
  IN IF hit_way # NULL
     THEN InvalEntry(CleanEntry(eng, hit_way, clean), hit_way, inval)
     ELSE eng

\* uint64_t start_addr = addr & ~(linesz-1)
StartAddr(eng, addr) == AlignDown(addr, eng.linesz)

\* uint64_t end_addr = (addr + bytes + linesz-1) & ~(linesz-1)
EndAddr(eng, addr, bytes) ==
  AlignDown(AddNat(AddNat(addr, bytes), eng.linesz - 1),
            eng.linesz)

\* while (cur_addr < end_addr) { ...; cur_addr += linesz; }
RECURSIVE CleanInvalLoop(_, _, _, _, _)
CleanInvalLoop(eng, cur_addr, end_addr, clean, inval) ==
  IF Less(cur_addr, end_addr)
  THEN CleanInvalLoop(CleanInvalLine(eng, cur_addr, clean, inval),
                      AddNat(cur_addr, eng.linesz), end_addr,
                      clean, inval)
  ELSE eng

\* faulty variant of ForwardClean: the next level is handed the aligned start
ForwardCleanAligned(S, from, addr, bytes, clean, inval) ==
  LET to == S.engs[from].miss_handler
      start == StartAddr(S.engs[from], addr)
  IN clean_invalidate([S EXCEPT !.calls =
                         Append(@, Call(from, to, "clean_invalidate", start,
                                        bytes, FALSE, clean, inval))],
                      to, start, bytes, clean, inval)

\* miss_handler->clean_invalidate(addr, bytes, clean, inval)
ForwardClean(S, from, addr, bytes, clean, inval) ==
  LET to == S.engs[from].miss_handler
  IN clean_invalidate([S EXCEPT !.calls =
                         Append(@, Call(from, to, "clean_invalidate", addr,
                                        bytes, FALSE, clean, inval))],
                      to, addr, bytes, clean, inval)

\* cache_sim_t::clean_invalidate on engine e
clean_invalidate(S, e, addr, bytes, clean, inval) ==
  LET eng == S.engs[e]
      done == CleanInvalLoop(eng, StartAddr(eng, addr),
                             EndAddr(eng, addr, bytes), clean, inval)
      S1 == [S EXCEPT !.engs[e] = done]
  IN IF done.miss_handler # NoHandler
     THEN ForwardClean(S1, e, addr, bytes, clean, inval)
     ELSE S1

----------------------------------------------------------------------------
(* Inputs of the model *)

\* 0xfffffffffffffffd: an unaligned address in the last line of the space
HighAddr == (0 .. (WordBits - 1)) \ {1}

\* (addr, bytes) of the accesses: lines 0, 16 and the last one at linesz 8
AccessInputs ==
  {<<ToWord(5), 1>>, <<ToWord(16), 4>>, <<HighAddr, 8>>}

\* (addr, bytes) of the maintenance calls: [5, 21) meets the lines 0, 8 and
\* 16 at linesz 8 and leaves the last line out
CleanInputs ==
  {<<ToWord(5), 16>>}

----------------------------------------------------------------------------
(* The system: engine 1 is driven by the simulator; 2 and 3 are the further  *)
(* levels the simulator may link behind it                                     *)

Top == 1
Levels == {1, 2, 3}

\* the object a copy constructor builds
CopyId == 4
Engines == Levels \cup {CopyId}

\* an indeterminate miss_handler that points at no engine
Wild == 9

NoCall ==
  [op |-> "none", e |-> 0, addr |-> {}, bytes |-> 0, store |-> FALSE,
   clean |-> FALSE, inval |-> FALSE, hit |-> FALSE, victim |-> {},
   config |-> <<>>, type |-> "none", end |-> {}, result |-> FALSE,
   value |-> {}]

\* cache_sim_t(sets, ways, linesz, name) and fa_cache_sim_t(ways, linesz, name)
HeadEngines == {NewEngine(FALSE, 2, 3, 8), NewEngine(TRUE, 1, 2, 8)}

Init ==
  /\ \E h \in HeadEngines :
       engs = [e \in Engines |->
                 IF e = 1 THEN h
                 ELSE IF e = 2 THEN NewEngine(FALSE, 1, 1, 16)
                 ELSE IF e = 3 THEN NewEngine(FALSE, 1, 1, 32)
                 ELSE NoEngine]
  /\ calls = <<>>
  /\ last = NoCall
  /\ proc = "running"
  /\ steps = 0

\* lfsr.next() % ways with ways == 0: reached on a miss of cache_sim_t, and
\* on a miss of fa_cache_sim_t when tags.size() == ways
DividesByZero(eng, addr) ==
  /\ eng.ways = 0
  /\ CheckTag(eng, addr) = NULL
  /\ (eng.fa => Cardinality(DOMAIN eng.fatags) = eng.ways)

\* a miss of an engine whose miss_handler is indeterminate and points at
\* no object
MissesIntoWild(eng, addr) ==
  eng.miss_handler = Wild /\ CheckTag(eng, addr) = NULL

\* the simulator calls engs[e].access(addr, bytes, store)
Access(e, addr, bytes, store) ==
  /\ proc = "running"
  /\ steps < MaxOps
  /\ engs[e].exists
  /\ ~DividesByZero(engs[e], addr)
  /\ ~MissesIntoWild(engs[e], addr)
  /\ LET S == access([engs |-> engs, calls |-> <<>>], e, addr, bytes, store)
         hit == CheckTag(engs[e], addr) # NULL
     IN /\ engs' = S.engs
        /\ calls' = S.calls
        /\ last' = [NoCall EXCEPT
                      !.op = "access", !.e = e, !.addr = addr,
                      !.bytes = bytes, !.store = store, !.hit = hit,
                      !.victim = IF hit THEN {}
                                 ELSE Victimize(engs[e], addr).victim]
  /\ steps' = steps + 1
  /\ UNCHANGED proc

\* the simulator calls engs[e].clean_invalidate(addr, bytes, clean, inval)
CleanInvalidate(e, addr, bytes, clean, inval) ==
  /\ proc = "running"
  /\ steps < MaxOps
  /\ engs[e].exists
  /\ engs[e].miss_handler # Wild
  /\ LET S == clean_invalidate([engs |-> engs, calls |-> <<>>], e, addr,
                               bytes, clean, inval)
     IN /\ engs' = S.engs
        /\ calls' = S.calls
  /\ last' = [NoCall EXCEPT !.op = "clean_invalidate", !.e = e,
                            !.addr = addr, !.bytes = bytes,
                            !.clean = clean, !.inval = inval]
  /\ steps' = steps + 1
  /\ UNCHANGED proc

\* set_miss_handler(mh): the simulator assembles a linear chain, each level
\* behind the one before it, before the run starts
SetMissHandler(e, mh) ==
  /\ proc = "running"
  /\ steps = 0
  /\ engs[e].exists /\ engs[mh].exists
  /\ mh = e + 1
  /\ engs[e].miss_handler = NoHandler
  /\ \A d \in Levels : d < e => engs[d].miss_handler = d + 1
  /\ engs' = [engs EXCEPT ![e].miss_handler = mh]
  /\ UNCHANGED <<calls, last, proc, steps>>

Next ==
  \/ \E inp \in AccessInputs, store \in BOOLEAN :
       Access(Top, inp[1], inp[2], store)
  \/ \E inp \in CleanInputs, clean \in BOOLEAN, inval \in BOOLEAN :
       CleanInvalidate(Top, inp[1], inp[2], clean, inval)
  \/ \E e \in Levels, mh \in Levels : SetMissHandler(e, mh)

Spec == Init /\ [][Next]_vars

----------------------------------------------------------------------------
(* cache_sim_t::construct: a configuration is the sequence of its         *)
(* characters                                                              *)

Digits == <<"0", "1", "2", "3", "4", "5", "6", "7", "8", "9">>

IsDigit(c) == \E d \in 1 .. 10 : Digits[d] = c

DigitValue(c) == (CHOOSE d \in 1 .. 10 : Digits[d] = c) - 1

\* atoi on a string without blanks or sign: the value of the digits it
\* starts with, 0 when it starts with none
RECURSIVE AtoiFrom(_, _, _)
AtoiFrom(str, i, acc) ==
  IF i > Len(str) \/ ~IsDigit(str[i]) THEN acc
  ELSE AtoiFrom(str, i + 1, 10 * acc + DigitValue(str[i]))

Atoi(str) == AtoiFrom(str, 1, 0)

\* strchr(str + (from - 1), ':'): the position of the first ':' at or
\* after from, 0 for NULL
Strchr(str, from) ==
  LET at == {i \in from .. Len(str) : str[i] = ":"}
  IN IF at = {} THEN 0 ELSE CHOOSE i \in at : \A j \in at : i <= j

\* the three size_t that construct parses, or "help" where it calls help()
ParseConfig(config) ==
  LET colon1 == Strchr(config, 1)
      wp == colon1 + 1
      colon2 == Strchr(config, wp)
      bp == colon2 + 1
  IN IF colon1 = 0 \/ colon2 = 0 THEN [help |-> TRUE]
     ELSE [help |-> FALSE,
           sets |-> Atoi(SubSeq(config, 1, wp - 1)),
           ways |-> Atoi(SubSeq(config, wp, bp - 1)),
           linesz |-> Atoi(SubSeq(config, bp, Len(config)))]

\* what construct returns: the new object, or NoEngine where help() ends
\* the process, in construct itself or in init()
ConstructResult(config) ==
  LET p == ParseConfig(config)
  IN IF p.help THEN NoEngine
     ELSE IF p.ways > 4 /\ p.sets = 1
     THEN (IF InitRejects(1, p.linesz) THEN NoEngine
           ELSE NewEngine(TRUE, 1, p.ways, p.linesz))
     ELSE (IF InitRejects(p.sets, p.linesz) THEN NoEngine
           ELSE NewEngine(FALSE, p.sets, p.ways, p.linesz))

\* the configurations the simulator may pass
Configs ==
  {<<"2", ":", "3", ":", "8">>,
   <<"1", ":", "5", ":", "1", "6">>,
   <<"2", ":", "0", ":", "8">>,
   <<"2", ":", "x", ":", "8">>,
   <<"1", ":", "0", ":", "8">>,
   <<"0", ":", "3", ":", "8">>,
   <<"3", ":", "3", ":", "8">>,
   <<"x", ":", "3", ":", "8">>,
   <<"2", ":", "3", ":", "4">>,
   <<"2", ":", "3", ":", "1", "2">>,
   <<"2", ":", "3", ":", "x">>,
   <<"1", ":", "5", ":", "0">>,
   <<"2", ":", "3">>,
   <<"8">>}

\* the simulator calls cache_sim_t::construct(config, name)
Construct(config) ==
  /\ proc = "running"
  /\ ~engs[Top].exists
  /\ LET r == ConstructResult(config)
     IN IF r.exists
        THEN engs' = [engs EXCEPT ![Top] = r] /\ UNCHANGED proc
        ELSE proc' = "exited" /\ UNCHANGED engs
  /\ last' = [NoCall EXCEPT !.op = "construct", !.config = config]
  /\ UNCHANGED <<calls, steps>>

\* access on an engine with ways == 0 that reaches lfsr.next() % ways: the
\* division by zero traps, or yields a way outside the empty array and the
\* store through it corrupts the heap
AccessDividesByZero(e, addr, bytes, store) ==
  /\ proc = "running"
  /\ steps < MaxOps
  /\ engs[e].exists
  /\ DividesByZero(engs[e], addr)
  /\ engs' = [engs EXCEPT
                ![e] = CountMiss(CountAccess(@, bytes, store), store)]
  /\ proc' \in {"sigfpe", "heap_corrupted"}
  /\ last' = [NoCall EXCEPT !.op = "access", !.e = e, !.addr = addr,
                            !.bytes = bytes, !.store = store]
  /\ calls' = <<>>
  /\ steps' = steps + 1

InitConstruct ==
  /\ engs = [e \in Engines |-> NoEngine]
  /\ calls = <<>>
  /\ last = NoCall
  /\ proc = "running"
  /\ steps = 0

NextConstruct ==
  \/ \E config \in Configs : Construct(config)
  \/ \E inp \in AccessInputs, store \in BOOLEAN :
       Access(Top, inp[1], inp[2], store)
  \/ \E inp \in AccessInputs, store \in BOOLEAN :
       AccessDividesByZero(Top, inp[1], inp[2], store)
  \/ \E inp \in CleanInputs, clean \in BOOLEAN, inval \in BOOLEAN :
       CleanInvalidate(Top, inp[1], inp[2], clean, inval)

SpecConstruct == InitConstruct /\ [][NextConstruct]_vars

----------------------------------------------------------------------------
(* The copy constructor *)

\* largest value an uninitialised counter is given
JunkMax == 1

\* cache_sim_t(const cache_sim_t& rhs): sets, ways, linesz, idx_shift and
\* name are copied, log is false and the tags are memcpy'd; lfsr is not
\* named and is default-constructed; the seven counters and miss_handler
\* are not initialised and hold junk.  fa_cache_sim_t's implicit copy
\* constructor copies its map as well.
CopyOf(rhs, junk, mh) ==
  [rhs EXCEPT !.log = FALSE, !.lfsr = LfsrSeed,
              !.read_accesses = junk, !.read_misses = junk,
              !.bytes_read = junk, !.write_accesses = junk,
              !.write_misses = junk, !.bytes_written = junk,
              !.writebacks = junk,
              !.miss_handler = mh]

\* the simulator copy-constructs an engine from engs[Top]
Copy ==
  /\ proc = "running"
  /\ steps < MaxOps
  /\ engs[Top].exists /\ ~engs[CopyId].exists
  /\ \E junk \in 0 .. JunkMax, mh \in {NoHandler, Wild} \cup Levels :
       engs' = [engs EXCEPT ![CopyId] = CopyOf(engs[Top], junk, mh)]
  /\ last' = [NoCall EXCEPT !.op = "copy", !.e = CopyId]
  /\ calls' = <<>>
  /\ steps' = steps + 1
  /\ UNCHANGED proc

\* a miss of an engine whose miss_handler points at no object: the call
\* through it crashes, after the victim was replaced
AccessThroughWild(e, addr, bytes, store) ==
  /\ proc = "running"
  /\ steps < MaxOps
  /\ engs[e].exists
  /\ MissesIntoWild(engs[e], addr)
  /\ engs' = [engs EXCEPT
                ![e] = Victimize(CountMiss(CountAccess(@, bytes, store),
                                           store), addr).eng]
  /\ proc' = "segv"
  /\ last' = [NoCall EXCEPT !.op = "access", !.e = e, !.addr = addr,
                            !.bytes = bytes, !.store = store,
                            !.victim = Victimize(engs[e], addr).victim]
  /\ calls' = <<>>
  /\ steps' = steps + 1

\* clean_invalidate of such an engine: the loop runs, the call crashes
CleanThroughWild(e, addr, bytes, clean, inval) ==
  /\ proc = "running"
  /\ steps < MaxOps
  /\ engs[e].exists
  /\ engs[e].miss_handler = Wild
  /\ engs' = [engs EXCEPT
                ![e] = CleanInvalLoop(@, StartAddr(@, addr),
                                      EndAddr(@, addr, bytes), clean, inval)]
  /\ proc' = "segv"
  /\ last' = [NoCall EXCEPT !.op = "clean_invalidate", !.e = e,
                            !.addr = addr, !.bytes = bytes,
                            !.clean = clean, !.inval = inval]
  /\ calls' = <<>>
  /\ steps' = steps + 1

\* the simulator drives the original until it copies it, then the copy
NextCopy ==
  \/ /\ ~engs[CopyId].exists
     /\ \/ \E inp \in AccessInputs, store \in BOOLEAN :
             Access(Top, inp[1], inp[2], store)
        \/ \E inp \in CleanInputs, clean \in BOOLEAN, inval \in BOOLEAN :
             CleanInvalidate(Top, inp[1], inp[2], clean, inval)
  \/ Copy
  \/ \E inp \in AccessInputs, store \in BOOLEAN :
       \/ Access(CopyId, inp[1], inp[2], store)
       \/ AccessThroughWild(CopyId, inp[1], inp[2], store)
  \/ \E inp \in CleanInputs, clean \in BOOLEAN, inval \in BOOLEAN :
       \/ CleanInvalidate(CopyId, inp[1], inp[2], clean, inval)
       \/ CleanThroughWild(CopyId, inp[1], inp[2], clean, inval)

SpecCopy == Init /\ [][NextCopy]_vars

----------------------------------------------------------------------------
(* Vocabulary of the properties *)

\* this step is a top-level access / clean_invalidate on the engine Top
AccessStep == steps' = steps + 1 /\ last'.op = "access" /\ last'.e = Top
CleanStep == steps' = steps + 1 /\ last'.op = "clean_invalidate" /\ last'.e = Top

HasBoth(entry) == 63 \in entry /\ 62 \in entry

MissCount(eng, store) == IF store THEN eng.write_misses ELSE eng.read_misses

\* the line-aligned addresses of the lines that hold a byte of [addr, addr+bytes)
LinesOf(eng, addr, bytes) ==
  {AlignDown(AddNat(addr, k), eng.linesz) : k \in 0 .. (bytes - 1)}

\* the calls a sequence holds that engine e made
CallsFrom(cs, e) ==
  LET By(c) == c.from = e IN SelectSeq(cs, By)

\* an entry for the line is found and carries VALID
ResidentValid(eng, line) ==
  /\ CheckTag(eng, line) # NULL
  /\ 63 \in Deref(eng, CheckTag(eng, line))

----------------------------------------------------------------------------
(* C3 *)

\* C3: a top-level access changes writebacks by exactly one when it misses
\* and the entry it evicts carries both VALID and DIRTY, and not at all
\* otherwise: not on a hit (a store hit included), not when the evicted
\* entry is empty, invalid or clean; with and without a next level linked.
C3_WritebackOnlyOnDirtyEviction ==
  [][AccessStep =>
       engs'[Top].writebacks =
         engs[Top].writebacks
           + (IF ~last'.hit /\ HasBoth(last'.victim) THEN 1 ELSE 0)]_vars

\* store miss, store hit on the same line, then the read miss that evicts
\* the line while DIRTY: one writeback
C3_Witness ==
  /\ steps = 3 /\ last.op = "access" /\ ~last.store /\ ~last.hit
  /\ HasBoth(last.victim)
  /\ engs[Top].write_accesses = 2 /\ engs[Top].write_misses = 1
  /\ engs[Top].writebacks = 1

----------------------------------------------------------------------------
(* C4 *)

\* C4: when a miss evicts a VALID and DIRTY entry and a next level is
\* linked, that level is called exactly once with store = true; the call
\* carries bytes = linesz and the line-aligned address whose tag is the
\* evicted entry's, which is the aligned address of an access that
\* installed it.
C4_WritebackCarriesEvictedLine ==
  [][(AccessStep /\ ~last'.hit /\ HasBoth(last'.victim)
        /\ engs[Top].miss_handler # NoHandler) =>
       LET IsWb(c) == c.from = Top /\ c.store
           wbs == SelectSeq(calls', IsWb)
           eng == engs[Top]
       IN /\ Len(wbs) = 1
          /\ wbs[1].op = "access"
          /\ wbs[1].to = eng.miss_handler
          /\ wbs[1].bytes = eng.linesz
          /\ LowBits(wbs[1].addr, eng.linesz) = {}
          /\ ShiftR(wbs[1].addr, eng.idx_shift) = last'.victim \ {62, 63}
          /\ \E inp \in AccessInputs :
               wbs[1].addr = inp[1] \ ToWord(eng.linesz - 1)]_vars

\* a dirty eviction of the line of 0xfffffffffffffffd, forwarded
C4_Witness ==
  /\ last.op = "access" /\ ~last.hit /\ HasBoth(last.victim)
  /\ engs[Top].miss_handler # NoHandler
  /\ \E i \in 1 .. Len(calls) :
       calls[i].from = Top /\ calls[i].store /\ calls[i].addr = 3 .. 63

----------------------------------------------------------------------------
(* C5 *)

\* C5: with a next level linked, a hit makes no call; a miss makes, in
\* this order, the writeback call when the evicted entry is VALID and
\* DIRTY, and then one fetch call: store = false, bytes = linesz, address
\* = the access's address aligned down to linesz.
C5_MissForwardsWritebackThenFetch ==
  [][(AccessStep /\ engs[Top].miss_handler # NoHandler) =>
       LET mine == CallsFrom(calls', Top)
           eng == engs[Top]
           fetch == Call(Top, eng.miss_handler, "access",
                         last'.addr \ ToWord(eng.linesz - 1), eng.linesz,
                         FALSE, FALSE, FALSE)
       IN IF last'.hit THEN calls' = <<>>
          ELSE /\ mine[Len(mine)] = fetch
               /\ Len(mine) = (IF HasBoth(last'.victim) THEN 2 ELSE 1)
               /\ Len(mine) = 2 =>
                    /\ mine[1].op = "access" /\ mine[1].store
                    /\ mine[1].bytes = eng.linesz
                    /\ mine[1].to = eng.miss_handler]_vars

\* a miss at an unaligned address that forwards a writeback and a fetch
C5_Witness ==
  /\ last.op = "access" /\ ~last.hit
  /\ engs[Top].miss_handler # NoHandler
  /\ LowBits(last.addr, engs[Top].linesz) # {}
  /\ Len(CallsFrom(calls, Top)) = 2
  /\ calls[1].store /\ ~calls[Len(calls)].store

----------------------------------------------------------------------------
(* C8 *)

----------------------------------------------------------------------------
(* C9 *)

\* the calls a clean_invalidate entering at engine e makes down the chain
RECURSIVE ChainCleanCalls(_, _)
ChainCleanCalls(e, c) ==
  IF engs[e].miss_handler = NoHandler THEN <<>>
  ELSE <<Call(e, engs[e].miss_handler, "clean_invalidate", c.addr, c.bytes,
              FALSE, c.clean, c.inval)>>
         \o ChainCleanCalls(engs[e].miss_handler, c)

\* C9: a clean_invalidate makes exactly one call per link of the chain, in
\* chain order, each with the caller's own (addr, bytes, clean, inval),
\* whatever the engines hold.
C9_CleanInvalidateForwardsDownChain ==
  last.op = "clean_invalidate" => calls = ChainCleanCalls(Top, last)

\* an unaligned clean_invalidate through three levels
C9_Witness ==
  /\ last.op = "clean_invalidate" /\ Len(calls) = 2
  /\ LowBits(last.addr, engs[Top].linesz) # {}
  /\ calls[1].to = 2 /\ calls[2].to = 3

----------------------------------------------------------------------------
(* C2 *)

\* C2: right after clean_invalidate(addr, bytes, clean, TRUE), an access
\* to a line of the range is counted as a miss: the miss counter of its
\* direction goes up by one, for either value of clean.
C2_InvalidatedLineMisses ==
  [][(AccessStep /\ last.op = "clean_invalidate" /\ last.e = Top
        /\ last.inval
        /\ AlignDown(last'.addr, engs[Top].linesz)
             \in LinesOf(engs[Top], last.addr, last.bytes)) =>
       MissCount(engs'[Top], last'.store)
         = MissCount(engs[Top], last'.store) + 1]_vars

----------------------------------------------------------------------------
(* C6 *)

\* the lines of the range that are resident with VALID and DIRTY
ValidDirtyLines(eng, addr, bytes) ==
  {l \in LinesOf(eng, addr, bytes) :
     ResidentValid(eng, l) /\ 62 \in Deref(eng, CheckTag(eng, l))}

\* C6: clean_invalidate(addr, bytes, TRUE, FALSE) over a range with K
\* lines resident VALID and DIRTY adds exactly K to writebacks, and leaves
\* each of the K lines resident, VALID and not DIRTY.
C6_CleanCountsValidDirtyLines ==
  [][(CleanStep /\ last'.clean /\ ~last'.inval) =>
       LET K == ValidDirtyLines(engs[Top], last'.addr, last'.bytes)
       IN /\ engs'[Top].writebacks = engs[Top].writebacks + Cardinality(K)
          /\ \A l \in K :
               /\ ResidentValid(engs'[Top], l)
               /\ 62 \notin Deref(engs'[Top], CheckTag(engs'[Top], l))]_vars

----------------------------------------------------------------------------
(* C7 *)

\* the entries of the fully-associative map that carry VALID
ValidEntries(eng) == {k \in DOMAIN eng.fatags : 63 \in eng.fatags[k]}

\* C7: in the fully-associative engine a miss removes no VALID line while
\* fewer than ways lines are VALID (an entry without VALID is empty, and
\* dropping it evicts nothing), removes exactly one entry when ways lines
\* are VALID, and the map never holds more than ways entries.
C7_FaEvictsOnlyAtCapacity ==
  [][(AccessStep /\ engs[Top].fa /\ ~last'.hit) =>
       LET before == DOMAIN engs[Top].fatags
           gone == before \ DOMAIN engs'[Top].fatags
           valid == Cardinality(ValidEntries(engs[Top]))
       IN /\ valid < engs[Top].ways => gone \cap ValidEntries(engs[Top]) = {}
          /\ valid = engs[Top].ways => Cardinality(gone) = 1
          /\ Cardinality(DOMAIN engs'[Top].fatags) <= engs[Top].ways]_vars


----------------------------------------------------------------------------
(* Construction *)

IsPowerOfTwo(n) == \E k \in 0 .. 12 : n = 2 ^ k

\* the three constraints on a configuration: all fields present, sets a
\* power of two >= 1, lineSize a power of two >= 8, ways >= 1
SatisfiesConstraints(config) ==
  LET p == ParseConfig(config)
  IN /\ ~p.help
     /\ IsPowerOfTwo(p.sets)
     /\ IsPowerOfTwo(p.linesz) /\ p.linesz >= 8
     /\ p.ways >= 1

\* C1: construction succeeds for every configuration with sets a power of
\* two >= 1, lineSize a power of two >= 8 and ways >= 1, and every
\* configuration violating one of the three (ways = 0 and a field that
\* parses as 0 included) is rejected: the process ends, no engine is
\* produced, so no engine with sets, ways or lineSize outside the
\* constraints ever exists to execute an access.
C1_ConstructAcceptsExactlyValidConfigs ==
  /\ last.op = "construct" =>
       /\ engs[Top].exists <=> SatisfiesConstraints(last.config)
       /\ ~SatisfiesConstraints(last.config) => proc = "exited"
  /\ engs[Top].exists =>
       /\ IsPowerOfTwo(engs[Top].sets)
       /\ IsPowerOfTwo(engs[Top].linesz) /\ engs[Top].linesz >= 8
       /\ engs[Top].ways >= 1

----------------------------------------------------------------------------
(* Copying *)

\* C10: right after an engine is copied, the copy's tag store and its
\* seven statistics counters equal the source's, and its logging is
\* disabled.
C10_CopyEqualsSource ==
  last.op = "copy" =>
    /\ engs[CopyId].tags = engs[Top].tags
    /\ engs[CopyId].fatags = engs[Top].fatags
    /\ \A c \in Counters : engs[CopyId][c] = engs[Top][c]
    /\ engs[CopyId].log = FALSE

----------------------------------------------------------------------------
(* icache_sim_t and dcache_sim_t: the memtracer adapters *)

\* access_type
AccessTypes == {"LOAD", "STORE", "FETCH"}

\* the engine each adapter's cache member points at
ICache == Top
DCache == Top + 1

\* icache_sim_t::interested_in_range
IcacheInterestedInRange(begin, end, type) == type = "FETCH"

\* dcache_sim_t::interested_in_range
DcacheInterestedInRange(begin, end, type) == type = "LOAD" \/ type = "STORE"

\* faulty variant of DcacheStoreFlag: every data access counted as a store
DcacheStoreFlagAlways(type) == TRUE

\* the third argument of cache->access in dcache_sim_t::trace
DcacheStoreFlag(type) == type = "STORE"

\* icache_sim_t::trace
IcacheTrace(addr, bytes, type) ==
  /\ proc = "running"
  /\ steps < MaxOps
  /\ LET S0 == [engs |-> engs, calls |-> <<>>]
         S == IF type = "FETCH" THEN access(S0, ICache, addr, bytes, FALSE)
              ELSE S0
     IN engs' = S.engs /\ calls' = S.calls
  /\ last' = [NoCall EXCEPT !.op = "trace", !.e = ICache, !.addr = addr,
                            !.bytes = bytes, !.type = type]
  /\ steps' = steps + 1
  /\ UNCHANGED proc

\* dcache_sim_t::trace
DcacheTrace(addr, bytes, type) ==
  /\ proc = "running"
  /\ steps < MaxOps
  /\ LET S0 == [engs |-> engs, calls |-> <<>>]
         S == IF type = "LOAD" \/ type = "STORE"
              THEN access(S0, DCache, addr, bytes, DcacheStoreFlag(type))
              ELSE S0
     IN engs' = S.engs /\ calls' = S.calls
  /\ last' = [NoCall EXCEPT !.op = "trace", !.e = DCache, !.addr = addr,
                            !.bytes = bytes, !.type = type]
  /\ steps' = steps + 1
  /\ UNCHANGED proc

\* the simulator asks an adapter whether it wants the accesses of a range
InterestedInRange(e, begin, end, type) ==
  /\ proc = "running"
  /\ last' = [NoCall EXCEPT
                !.op = "interested_in_range", !.e = e, !.addr = begin,
                !.end = end, !.type = type,
                !.result = IF e = ICache
                           THEN IcacheInterestedInRange(begin, end, type)
                           ELSE DcacheInterestedInRange(begin, end, type)]
  /\ UNCHANGED <<engs, calls, proc, steps>>

\* the ranges asked about
RangeInputs == {<<ToWord(0), ToWord(8)>>, <<HighAddr, ToWord(5)>>}

\* icache_sim_t("2:3:8") and dcache_sim_t("1:5:16"): each constructor runs
\* cache_sim_t::construct on its configuration
InitAdapters ==
  /\ engs = [e \in Engines |->
               IF e = ICache
               THEN ConstructResult(<<"2", ":", "3", ":", "8">>)
               ELSE IF e = DCache
               THEN ConstructResult(<<"1", ":", "5", ":", "1", "6">>)
               ELSE NoEngine]
  /\ calls = <<>>
  /\ last = NoCall
  /\ proc = "running"
  /\ steps = 0

NextAdapters ==
  \/ \E inp \in AccessInputs, type \in AccessTypes :
       IcacheTrace(inp[1], inp[2], type)
  \/ \E inp \in AccessInputs, type \in AccessTypes :
       DcacheTrace(inp[1], inp[2], type)
  \/ \E e \in {ICache, DCache}, r \in RangeInputs, type \in AccessTypes :
       InterestedInRange(e, r[1], r[2], type)

SpecAdapters == InitAdapters /\ [][NextAdapters]_vars

\* the kinds each adapter is documented to take
WantedBy(e, type) ==
  IF e = ICache THEN type = "FETCH" ELSE type \in {"LOAD", "STORE"}

\* C11: the instruction adapter's interest predicate is true exactly for
\* FETCH and the data adapter's exactly for LOAD and STORE, whatever the
\* range; trace performs one access of the adapter's engine, with store
\* set only for STORE, when the predicate holds for the kind, and leaves
\* every engine as it was otherwise.
C11_AdaptersFilterByAccessType ==
  [][/\ last'.op = "interested_in_range" =>
          last'.result = WantedBy(last'.e, last'.type)
     /\ (last'.op = "trace" /\ steps' = steps + 1) =>
          LET e == last'.e
              st == last'.type = "STORE"
              once == access([engs |-> engs, calls |-> <<>>], e, last'.addr,
                             last'.bytes, st)
          IN IF WantedBy(e, last'.type)
             THEN /\ engs' = once.engs
                  /\ engs'[e].read_accesses + engs'[e].write_accesses
                       = engs[e].read_accesses + engs[e].write_accesses + 1
                  /\ engs'[e].write_accesses
                       = engs[e].write_accesses + (IF st THEN 1 ELSE 0)
             ELSE engs' = engs]_vars

\* a FETCH and a STORE offered to both adapters: each took its own kind
C11_Witness ==
  /\ steps = 4 /\ last.op = "trace"
  /\ engs[ICache].read_accesses = 1 /\ engs[ICache].write_accesses = 0
  /\ engs[DCache].read_accesses = 0 /\ engs[DCache].write_accesses = 1

----------------------------------------------------------------------------
(* The value construct hands back *)

\* C12: when the configuration is invalid (a separator is missing, or a
\* field violates its numeric, power-of-two or minimum constraint),
\* construct returns to its caller with the null pointer: the call is over,
\* the process is still running, and no engine was produced.
C12_ConstructReturnsNullOnInvalid ==
  (last.op = "construct" /\ ~SatisfiesConstraints(last.config)) =>
    proc = "running" /\ ~engs[Top].exists

----------------------------------------------------------------------------
(* lfsr_t on its own *)

\* calls of next() per run
MaxDraws == 128

\* a slot that holds a lfsr_t and no cache engine
LfsrObject(reg) == [exists |-> FALSE, reg |-> reg]

\* lfsr_t(): reg(1)
InitLfsr ==
  /\ engs = [e \in Engines |-> IF e = Top THEN LfsrObject(LfsrSeed)
                               ELSE NoEngine]
  /\ calls = <<>>
  /\ last = NoCall
  /\ proc = "running"
  /\ steps = 0

\* lfsr_t::next(): the register is replaced and its new value returned
LfsrDraw ==
  /\ proc = "running"
  /\ steps < MaxDraws
  /\ engs' = [engs EXCEPT ![Top].reg = LfsrNext(@)]
  /\ last' = [NoCall EXCEPT !.op = "next", !.value = LfsrNext(engs[Top].reg)]
  /\ steps' = steps + 1
  /\ UNCHANGED <<calls, proc>>

NextLfsr == LfsrDraw

SpecLfsr == InitLfsr /\ [][NextLfsr]_vars

\* a 32-bit register as two 16-bit naturals
HighHalf(reg) == ToNat(ShiftR(reg, 16))
LowHalf(reg) == ToNat(reg \cap (0 .. 15))

\* n with bit k flipped, by arithmetic
FlipBit(n, k) ==
  IF (n \div (2 ^ k)) % 2 = 1 THEN n - 2 ^ k ELSE n + 2 ^ k

\* C13: the generator starts at 1; next() leaves in the register, and
\* returns, the old value shifted right by one bit, XORed with 0xD0000001
\* (high half 0xD000: bits 15, 14, 12; low half 0x0001) when the old low
\* bit was 1, within 32 bits.
C13_LfsrStepsByShiftAndMask ==
  [][/\ steps = 0 => HighHalf(engs[Top].reg) = 0 /\ LowHalf(engs[Top].reg) = 1
     /\ last'.op = "next" =>
          LET hi == HighHalf(engs[Top].reg)
              lo == LowHalf(engs[Top].reg)
              shhi == hi \div 2
              shlo == (hi % 2) * 32768 + lo \div 2
              odd == lo % 2 = 1
          IN /\ engs'[Top].reg \subseteq 0 .. 31
             /\ last'.value = engs'[Top].reg
             /\ HighHalf(engs'[Top].reg) =
                  (IF odd THEN FlipBit(FlipBit(FlipBit(shhi, 15), 14), 12)
                   ELSE shhi)
             /\ LowHalf(engs'[Top].reg) =
                  (IF odd THEN FlipBit(shlo, 0) ELSE shlo)]_vars

\* the register after draws of both kinds: the last one from an even value
C13_Witness ==
  /\ last.op = "next" /\ steps > 40
  /\ 31 \notin engs[Top].reg /\ 30 \in engs[Top].reg
  /\ engs[Top].reg # LfsrSeed

----------------------------------------------------------------------------
(* A sweep over consecutive lines of one engine *)

\* reads per run: two passes over the lines of the sweep
MaxReads == 128

\* the engine of the sweep: construct("16:4:64")
SweepConfig == <<"1", "6", ":", "4", ":", "6", "4">>

InitSweep ==
  /\ engs = [e \in Engines |-> IF e = Top THEN ConstructResult(SweepConfig)
                               ELSE NoEngine]
  /\ calls = <<>>
  /\ last = NoCall
  /\ proc = "running"
  /\ steps = 0

\* the lines of the sweep: as many as the engine has slots
SweepLines == engs[Top].sets * engs[Top].ways

\* the simulator reads one byte at the next line of the sweep, ascending
\* from address 0 and starting over after the last line:
\* engs[Top].access(k * linesz, 1, false)
SweepRead ==
  /\ proc = "running"
  /\ steps < MaxReads
  /\ LET addr == ToWord((steps % SweepLines) * engs[Top].linesz)
         S == access([engs |-> engs, calls |-> <<>>], Top, addr, 1, FALSE)
         hit == CheckTag(engs[Top], addr) # NULL
     IN /\ engs' = S.engs
        /\ calls' = S.calls
        /\ last' = [NoCall EXCEPT
                      !.op = "access", !.e = Top, !.addr = addr,
                      !.bytes = 1, !.hit = hit,
                      !.victim = IF hit THEN {}
                                 ELSE Victimize(engs[Top], addr).victim]
  /\ steps' = steps + 1
  /\ UNCHANGED proc

NextSweep == SweepRead

SpecSweep == InitSweep /\ [][NextSweep]_vars

\* C14: after the first pass (reads of 0, 64, ..., 4032 on the fresh
\* 16:4:64 engine) every slot of every set holds a VALID entry and each of
\* the 64 lines is resident.
C14_SweepFillsEverySet ==
  steps = SweepLines =>
    /\ \A i \in DOMAIN engs[Top].tags : 63 \in engs[Top].tags[i]
    /\ \A k \in 0 .. (SweepLines - 1) :
         ResidentValid(engs[Top], ToWord(k * engs[Top].linesz))

----------------------------------------------------------------------------
(* C15 *)

\* the members of an engine a hit may touch: the tag store, and the access
\* and byte counters of the direction
HitMayChange(store) ==
  {"tags", "fatags"} \cup
    (IF store THEN {"write_accesses", "bytes_written"}
     ELSE {"read_accesses", "bytes_read"})

\* the tag store a pointer of check_tag points into, as a function
TagStore(eng) == IF eng.fa THEN eng.fatags ELSE eng.tags

\* C15: an access that hits adds one to the access counter and bytes to
\* the byte counter of its direction and, for a store, sets DIRTY on the
\* hit entry; the miss counters, writebacks, the LFSR register, the other
\* entries, the tag and VALID flag of the hit entry and every other engine
\* stay as they were, and no call is made.
C15_HitChangesOnlyCountersAndDirty ==
  [][(AccessStep /\ last'.hit) =>
       LET old == engs[Top]
           new == engs'[Top]
           st == last'.store
           slot == CheckTag(old, last'.addr)[1]
       IN /\ \A e \in Engines \ {Top} : engs'[e] = engs[e]
          /\ calls' = <<>>
          /\ \A f \in (DOMAIN old) \ HitMayChange(st) : new[f] = old[f]
          /\ IF st
             THEN /\ new.write_accesses = old.write_accesses + 1
                  /\ new.bytes_written = old.bytes_written + last'.bytes
             ELSE /\ new.read_accesses = old.read_accesses + 1
                  /\ new.bytes_read = old.bytes_read + last'.bytes
          /\ DOMAIN TagStore(new) = DOMAIN TagStore(old)
          /\ \A i \in DOMAIN TagStore(old) :
               i # slot => TagStore(new)[i] = TagStore(old)[i]
          /\ TagStore(new)[slot] =
               (IF st THEN TagStore(old)[slot] \cup DIRTY
                ELSE TagStore(old)[slot])]_vars

\* a store that hits a clean line, then a read that hits it, with a next
\* level linked
C15_Witness ==
  /\ steps = 3 /\ last.op = "access" /\ last.hit /\ ~last.store
  /\ engs[Top].miss_handler # NoHandler
  /\ engs[Top].read_misses = 1 /\ engs[Top].write_accesses = 1
  /\ engs[Top].write_misses = 0
  /\ 62 \in Deref(engs[Top], CheckTag(engs[Top], last.addr))

----------------------------------------------------------------------------
(* C16 *)

\* C16: right after an access returns, the line of its address is resident
\* with VALID at the engine accessed; after a store, hit or miss, the entry
\* carries DIRTY; after a read miss the entry installed does not, whatever
\* the entry it replaced carried.
C16_AccessedLineResidentAfterwards ==
  [][AccessStep =>
       LET new == engs'[Top]
           entry == Deref(new, CheckTag(new, last'.addr))
       IN /\ ResidentValid(new, last'.addr)
          /\ last'.store => 62 \in entry
          /\ (~last'.store /\ ~last'.hit) => 62 \notin entry]_vars

----------------------------------------------------------------------------
(* Maintenance ranges at the edges of the address space *)

\* (addr, bytes) of the maintenance calls: an empty range at an unaligned
\* address, a range that runs past the end of the address space, and the
\* range [5, 21)
EdgeCleanInputs ==
  {<<ToWord(5), 0>>, <<HighAddr, 8>>, <<ToWord(5), 16>>}

NextEdges ==
  \/ \E inp \in AccessInputs, store \in BOOLEAN :
       Access(Top, inp[1], inp[2], store)
  \/ \E inp \in EdgeCleanInputs, clean \in BOOLEAN, inval \in BOOLEAN :
       CleanInvalidate(Top, inp[1], inp[2], clean, inval)

SpecEdges == Init /\ [][NextEdges]_vars

\* the line-aligned addresses of the lines that hold a byte of
\* [addr, addr+bytes): the bytes addr+k, k < bytes, that lie within the
\* 64-bit address space
RangeLines(eng, addr, bytes) ==
  {AlignDown(AddNat(addr, k), eng.linesz) :
     k \in {j \in 0 .. (bytes - 1) : ~Less(AddNat(addr, j), addr)}}

\* the line an entry of the tag store stands for
LineOfEntry(eng, entry) == ShiftL(entry \ (VALID \cup DIRTY), eng.idx_shift)

\* an entry after the maintenance asked for
Maintained(entry, clean, inval) ==
  (entry \ (IF clean THEN DIRTY ELSE {})) \ (IF inval THEN VALID ELSE {})

\* C17: clean_invalidate(addr, bytes, clean, inval) cleans / invalidates
\* every VALID entry whose line holds a byte of [addr, addr+bytes) and
\* leaves every entry of a line outside the range as it was, also for
\* bytes = 0 at an unaligned addr and for addr + bytes beyond 2^64.
C17_CleanInvalidateCoversExactlyTheRange ==
  [][CleanStep =>
       LET old == engs[Top]
           new == engs'[Top]
           R == RangeLines(old, last'.addr, last'.bytes)
       IN \A i \in DOMAIN TagStore(old) :
            LET entry == TagStore(old)[i]
            IN IF LineOfEntry(old, entry) \in R
               THEN 63 \in entry =>
                      TagStore(new)[i]
                        = Maintained(entry, last'.clean, last'.inval)
               ELSE TagStore(new)[i] = entry]_vars

----------------------------------------------------------------------------
(* C18 *)

\* C18: for an engine construct returned and every address, the victim way
\* lfsr.next() % ways is defined and every way's slot idx*ways + way of the
\* address's set lies in [0, sets*ways), and no access or clean_invalidate
\* fails: the process is never ended by one.
C18_IndexArithmeticNeverFails ==
  /\ proc \notin {"sigfpe", "heap_corrupted"}
  /\ engs[Top].exists =>
       \A inp \in AccessInputs :
         /\ engs[Top].ways > 0
         /\ \A way \in 0 .. (engs[Top].ways - 1) :
              SetIndex(engs[Top], inp[1]) * engs[Top].ways + way
                \in 0 .. (engs[Top].sets * engs[Top].ways - 1)
         /\ (~engs[Top].fa) =>
              WordMod(LfsrNext(engs[Top].lfsr), engs[Top].ways)
                \in 0 .. (engs[Top].ways - 1)

----------------------------------------------------------------------------
(* C19 *)

\* the line tag of an entry: the entry without its two flag bits
TagOf(entry) == entry \ (VALID \cup DIRTY)

\* C19: in a set-associative engine no two ways of a set hold VALID
\* entries with the same line tag, and the low log2(sets) bits of the tag
\* of a VALID entry in set s are s; in a fully-associative engine the tag
\* stored under a key is the key.
C19_TagStoreWellFormed ==
  \A e \in Levels :
    LET eng == engs[e]
    IN eng.exists =>
         IF eng.fa
         THEN \A k \in DOMAIN eng.fatags : TagOf(eng.fatags[k]) = k
         ELSE \A s \in 0 .. (eng.sets - 1) :
                \A w \in 0 .. (eng.ways - 1) :
                  LET entry == eng.tags[s * eng.ways + w]
                  IN 63 \in entry =>
                       /\ ToNat(TagOf(entry) \cap ToWord(eng.sets - 1)) = s
                       /\ \A v \in 0 .. (eng.ways - 1) :
                            (v # w /\ 63 \in eng.tags[s * eng.ways + v]) =>
                              TagOf(eng.tags[s * eng.ways + v])
                                # TagOf(entry)

\* a set-associative engine that fetched a line again after it was
\* invalidated: the line is VALID in one way of its set while another way
\* still holds its tag without VALID
C19_Witness ==
  /\ ~engs[Top].fa
  /\ \E w \in 0 .. 2, v \in 0 .. 2 :
       /\ v # w
       /\ 63 \in engs[Top].tags[w]
       /\ engs[Top].tags[v] # {}
       /\ engs[Top].tags[v] = TagOf(engs[Top].tags[w])

----------------------------------------------------------------------------
(* C20 *)

\* the entries of the tag store that carry the DIRTY flag
DirtyEntries(eng) ==
  {i \in DOMAIN TagStore(eng) : 62 \in TagStore(eng)[i]}

\* C20: in every engine, after any sequence of access and clean_invalidate
\* calls, writebacks plus the number of entries carrying DIRTY is at most
\* write_accesses, read_misses <= read_accesses and write_misses <=
\* write_accesses; and no call makes any of the seven counters smaller.
C20_CountersConsistentAndMonotone ==
  /\ [](\A e \in Levels :
          engs[e].exists =>
            /\ engs[e].writebacks + Cardinality(DirtyEntries(engs[e]))
                 <= engs[e].write_accesses
            /\ engs[e].read_misses <= engs[e].read_accesses
            /\ engs[e].write_misses <= engs[e].write_accesses)
  /\ [][\A e \in Levels :
          engs[e].exists =>
            \A c \in Counters : engs'[e][c] >= engs[e][c]]_vars

\* two stores to different lines, one of them then cleaned: a writeback
\* counted and a DIRTY entry left, together as many as the stores
C20_Witness ==
  /\ engs[Top].write_accesses = 2
  /\ engs[Top].writebacks = 1
  /\ Cardinality(DirtyEntries(engs[Top])) = 1
  /\ last.op = "clean_invalidate" /\ last.clean

----------------------------------------------------------------------------
(* C21 *)

\* level 2 is linked behind level 1 and is called through it only
TwoLevels == engs[Top].miss_handler = Top + 1

\* C21: with level 2 behind level 1, after every top-level call level 2's
\* read_accesses is level 1's read_misses + write_misses and its bytes_read
\* is that sum times level 1's linesz; level 2's write_accesses grows by
\* one exactly with each level-1 miss that evicts a VALID and DIRTY entry
\* and never with a clean_invalidate, so it is at most level 1's
\* writebacks.
C21_NextLevelCountsFollowMisses ==
  /\ [](TwoLevels =>
          LET l1 == engs[Top]
              l2 == engs[Top + 1]
              misses == l1.read_misses + l1.write_misses
          IN /\ l2.read_accesses = misses
             /\ l2.bytes_read = misses * l1.linesz
             /\ l2.write_accesses <= l1.writebacks
             /\ l2.bytes_written = l2.write_accesses * l1.linesz)
  /\ [][(TwoLevels /\ steps' = steps + 1) =>
          engs'[Top + 1].write_accesses =
            engs[Top + 1].write_accesses
              + (IF last'.op = "access" /\ ~last'.hit
                      /\ HasBoth(last'.victim)
                 THEN 1 ELSE 0)]_vars

\* a writeback by clean_invalidate, which level 2 does not see, and a
\* writeback by eviction, which it does
C21_Witness ==
  /\ TwoLevels
  /\ engs[Top].writebacks = 2
  /\ engs[Top + 1].write_accesses = 1
  /\ engs[Top + 1].read_accesses >= 2

----------------------------------------------------------------------------
(* C22 *)

\* C22: the register of the replacement generator is never 0: it is 1 at
\* construction and every next() leaves, and returns, a nonzero value.
C22_LfsrRegisterNeverZero ==
  /\ engs[Top].reg # {}
  /\ last.op = "next" => last.value # {}

\* the generator after more than a hundred draws
C22_Witness ==
  /\ last.op = "next" /\ steps > 100
  /\ engs[Top].reg # {} /\ engs[Top].reg # LfsrSeed

====
